---------------------------- MODULE Spec2Model ----------------------------
(***************************************************************************)
(* The requirements-quality scoring engine of src/req_matrix.py:           *)
(* parse_requirements, the three lexical predicates, the three scorers and *)
(* generate_validation_matrix.                                             *)
(*                                                                         *)
(* A Python str is modelled as a sequence of one-character strings, so     *)
(* that strip, split, startswith, replace, lower and the substring test    *)
(* are computed character by character, as the interpreter computes them.  *)
(***************************************************************************)
EXTENDS Integers, Sequences, FiniteSets, TLC

(***************************************************************************)
(* Python str primitives used by the engine.                               *)
(***************************************************************************)

\* The characters str.strip() and str.split() treat as whitespace.
Whitespace == {" ", "\t", "\n", "\r", "\f"}

\* The decimal digits matched by \d.
Digits == {"0", "1", "2", "3", "4", "5", "6", "7", "8", "9"}

\* str.lower() on one character.
LowerMap ==
  ("A" :> "a") @@ ("B" :> "b") @@ ("C" :> "c") @@ ("D" :> "d") @@
  ("E" :> "e") @@ ("F" :> "f") @@ ("G" :> "g") @@ ("H" :> "h") @@
  ("I" :> "i") @@ ("J" :> "j") @@ ("K" :> "k") @@ ("L" :> "l") @@
  ("M" :> "m") @@ ("N" :> "n") @@ ("O" :> "o") @@ ("P" :> "p") @@
  ("Q" :> "q") @@ ("R" :> "r") @@ ("S" :> "s") @@ ("T" :> "t") @@
  ("U" :> "u") @@ ("V" :> "v") @@ ("W" :> "w") @@ ("X" :> "x") @@
  ("Y" :> "y") @@ ("Z" :> "z")

UpperCase == DOMAIN LowerMap

\* s.lower()
lower(s) ==
  [i \in 1..Len(s) |-> IF s[i] \in UpperCase THEN LowerMap[s[i]] ELSE s[i]]

RECURSIVE SkipLeft(_, _)
\* index of the first non-whitespace character of s at or after i
SkipLeft(s, i) ==
  IF i > Len(s) THEN i
  ELSE IF s[i] \in Whitespace THEN SkipLeft(s, i + 1) ELSE i

RECURSIVE SkipRight(_, _)
\* index of the last non-whitespace character of s at or before i
SkipRight(s, i) ==
  IF i < 1 THEN i
  ELSE IF s[i] \in Whitespace THEN SkipRight(s, i - 1) ELSE i

\* s.strip()
strip(s) ==
  LET a == SkipLeft(s, 1)
  IN  IF a > Len(s) THEN <<>> ELSE SubSeq(s, a, SkipRight(s, Len(s)))

\* s.find("\n", i - 1) + 1: the index of the first "\n" of s at or after i,
\* Len(s) + 1 if there is none
find_newline(s, i) ==
  LET breaks == {k \in i..Len(s) : s[k] = "\n"}
  IN  IF breaks = {} THEN Len(s) + 1
      ELSE CHOOSE k \in breaks : \A j \in breaks : k <= j

RECURSIVE split_from(_, _, _)
\* the pieces of s[start..] between "\n" characters, the first "\n" at or
\* after start being at i
split_from(s, start, i) ==
  IF i > Len(s) THEN <<SubSeq(s, start, Len(s))>>
  ELSE <<SubSeq(s, start, i - 1)>>
       \o split_from(s, i + 1, find_newline(s, i + 1))

\* s.split("\n"): empty pieces are kept, "" splits into [""]
split_lines(s) == split_from(s, 1, find_newline(s, 1))

\* s[i:].startswith(p)
MatchAt(s, i, p) ==
  /\ i + Len(p) - 1 <= Len(s)
  /\ s[i] = p[1]
  /\ SubSeq(s, i, i + Len(p) - 1) = p

\* s.startswith(p), p non-empty
startswith(s, p) == Len(s) >= 1 /\ MatchAt(s, 1, p)

RECURSIVE replace_from(_, _, _)
\* s[i:].replace(old, ""): every non-overlapping occurrence, left to right
replace_from(s, old, i) ==
  IF i > Len(s) THEN <<>>
  ELSE IF MatchAt(s, i, old) THEN replace_from(s, old, i + Len(old))
       ELSE <<s[i]>> \o replace_from(s, old, i + 1)

\* s.replace(old, "")
replace(s, old) == replace_from(s, old, 1)

RECURSIVE letters_in_order(_, _, _, _)
\* the letters w[j..] occur in s[i..] in this order, other characters
\* allowed between them
letters_in_order(s, w, i, j) ==
  IF j > Len(w) THEN TRUE
  ELSE IF i > Len(s) THEN FALSE
  ELSE IF s[i] = w[j] THEN letters_in_order(s, w, i + 1, j + 1)
  ELSE letters_in_order(s, w, i + 1, j)

\* -- deviation: w matches s when its letters occur in s in order, not
\* necessarily next to each other
contains_letters_in_order(s, w) == letters_in_order(s, w, 1, 1)

\* w in s, w non-empty
contains(s, w) == \E i \in 1..(Len(s) - Len(w) + 1) : MatchAt(s, i, w)

\* len(s.split()): the number of maximal runs of non-whitespace characters
word_count(s) ==
  Cardinality({i \in 1..Len(s) :
                 /\ s[i] \notin Whitespace
                 /\ (i = 1 \/ s[i - 1] \in Whitespace)})

(***************************************************************************)
(* CONFIGURATION                                                           *)
(***************************************************************************)

AMBIGUOUS_WORDS ==
  << <<"f","a","s","t">>,
     <<"q","u","i","c","k">>,
     <<"e","f","f","i","c","i","e","n","t">>,
     <<"u","s","e","r","-","f","r","i","e","n","d","l","y">>,
     <<"e","t","c">>,
     <<"a","n","d"," ","s","o"," ","o","n">>,
     <<"a","p","p","r","o","p","r","i","a","t","e">>,
     <<"s","u","i","t","a","b","l","e">>,
     <<"r","o","b","u","s","t">>,
     <<"s","e","c","u","r","e">>,
     <<"e","a","s","y">>,
     <<"o","p","t","i","m","i","z","e">>,
     <<"l","o","w"," ","l","a","t","e","n","c","y">>,
     <<"l","a","r","g","e"," ","n","u","m","b","e","r">>,
     <<"r","e","l","i","a","b","l","e">>,
     <<"c","o","n","s","i","s","t","e","n","t">>,
     <<"s","c","a","l","a","b","l","e">> >>

ACTION_VERBS ==
  << <<"s","h","a","l","l">>,
     <<"m","u","s","t">>,
     <<"s","h","o","u","l","d">>,
     <<"w","i","l","l">>,
     <<"a","l","l","o","w">>,
     <<"p","r","o","v","i","d","e">>,
     <<"g","e","n","e","r","a","t","e">>,
     <<"s","t","o","r","e">>,
     <<"p","r","o","c","e","s","s">>,
     <<"v","a","l","i","d","a","t","e">>,
     <<"s","e","n","d">>,
     <<"r","e","c","e","i","v","e">>,
     <<"d","i","s","p","l","a","y">>,
     <<"e","n","s","u","r","e">>,
     <<"s","u","p","p","o","r","t">> >>

\* the alternatives of the regular expression besides \d+ and \%
MEASURABLE_UNITS ==
  << <<"s","e","c","o","n","d","s">>,
     <<"m","s">>,
     <<"u","s","e","r","s">>,
     <<"t","r","a","n","s","a","c","t","i","o","n","s">>,
     <<"r","e","q","u","e","s","t","s">> >>

\* "[Functional]"
FunctionalLabel == <<"[","F","u","n","c","t","i","o","n","a","l","]">>

\* "[Non-Functional]"
NonFunctionalLabel ==
  <<"[","N","o","n","-","F","u","n","c","t","i","o","n","a","l","]">>

(***************************************************************************)
(* PARSER                                                                  *)
(***************************************************************************)

\* parse_line with "label in line" in place of line.startswith(label)
parse_line_label_anywhere(buckets, raw_line) ==
  LET line == strip(raw_line)
  IN  IF contains(line, FunctionalLabel)
      THEN [buckets EXCEPT !.functional =
              Append(@, strip(replace(line, FunctionalLabel)))]
      ELSE IF contains(line, NonFunctionalLabel)
      THEN [buckets EXCEPT !.non_functional =
              Append(@, strip(replace(line, NonFunctionalLabel)))]
      ELSE buckets

\* One pass of the for loop: the pair of buckets after the line is handled.
parse_line(buckets, raw_line) ==
  LET line == strip(raw_line)
  IN  IF startswith(line, FunctionalLabel)
      THEN [buckets EXCEPT !.functional =
              Append(@, strip(replace(line, FunctionalLabel)))]
      ELSE IF startswith(line, NonFunctionalLabel)
      THEN [buckets EXCEPT !.non_functional =
              Append(@, strip(replace(line, NonFunctionalLabel)))]
      ELSE buckets

RECURSIVE parse_loop(_, _, _)
\* The for loop over lines[i..], started with the buckets built so far.
parse_loop(buckets, lines, i) ==
  IF i > Len(lines) THEN buckets
  ELSE parse_loop(parse_line(buckets, lines[i]), lines, i + 1)

parse_requirements(text) ==
  parse_loop([functional |-> <<>>, non_functional |-> <<>>],
             split_lines(strip(text)), 1)

(***************************************************************************)
(* HELPER FUNCTIONS                                                        *)
(***************************************************************************)

\* -- deviation: w in s only where w is a whole word, with white space or
\* an end of s on both sides (the pattern \bw\b for these words)
contains_word(s, w) ==
  \E i \in 1..(Len(s) - Len(w) + 1) :
    /\ MatchAt(s, i, w)
    /\ (i = 1 \/ s[i - 1] \in Whitespace)
    /\ (i + Len(w) > Len(s) \/ s[i + Len(w)] \in Whitespace)

\* -- deviation: the ambiguous terms are matched as whole words
contains_ambiguity_whole_words(req) ==
  LET l == lower(req)
  IN  \E j \in 1..Len(AMBIGUOUS_WORDS) : contains_word(l, AMBIGUOUS_WORDS[j])

\* -- deviation: the unit names are matched as whole words
contains_measurable_value_whole_words(req) ==
  LET l == lower(req)
  IN  \/ \E i \in 1..Len(l) : l[i] \in Digits
      \/ \E i \in 1..Len(l) : l[i] = "%"
      \/ \E j \in 1..Len(MEASURABLE_UNITS) :
           contains_word(l, MEASURABLE_UNITS[j])

contains_action(req) ==
  LET l == lower(req)
  IN  \E j \in 1..Len(ACTION_VERBS) : contains(l, ACTION_VERBS[j])

contains_ambiguity(req) ==
  LET l == lower(req)
  IN  \E j \in 1..Len(AMBIGUOUS_WORDS) : contains(l, AMBIGUOUS_WORDS[j])

\* re.search(r"\d+|\%|seconds|ms|users|transactions|requests", req.lower())
contains_measurable_value(req) ==
  LET l == lower(req)
  IN  \/ \E i \in 1..Len(l) : l[i] \in Digits
      \/ \E i \in 1..Len(l) : l[i] = "%"
      \/ \E j \in 1..Len(MEASURABLE_UNITS) : contains(l, MEASURABLE_UNITS[j])

(***************************************************************************)
(* Python float arithmetic (IEEE-754 binary64, round to nearest, ties to   *)
(* even), as far as evaluate_correctness uses it: int / int, float * int   *)
(* and the comparison of a float with an int.                              *)
(*                                                                         *)
(* A positive float is [m |-> bits, e |-> k]: m holds MantBits bits, most  *)
(* significant first, m[1] = 1, and its value is (m read in binary) * 2^k. *)
(* 0.0 is [m |-> <<>>, e |-> 0].                                           *)
(***************************************************************************)

\* the significand width of a binary64
MantBits == 53

FloatZero == [m |-> <<>>, e |-> 0]

RECURSIVE bits_value(_)
\* the integer a bit sequence denotes
bits_value(bits) ==
  IF bits = <<>> THEN 0
  ELSE 2 * bits_value(SubSeq(bits, 1, Len(bits) - 1)) + bits[Len(bits)]

RECURSIVE to_bits(_)
\* the binary digits of n > 0, most significant first; <<>> for 0
to_bits(n) == IF n = 0 THEN <<>> ELSE to_bits(n \div 2) \o <<n % 2>>

RECURSIVE increment(_)
\* bits + 1; one bit longer when every bit was 1
increment(bits) ==
  IF bits = <<>> THEN <<1>>
  ELSE IF bits[Len(bits)] = 0
       THEN SubSeq(bits, 1, Len(bits) - 1) \o <<1>>
       ELSE increment(SubSeq(bits, 1, Len(bits) - 1)) \o <<0>>

\* The binary64 nearest to bits * 2^e (bits[1] = 1), where sticky says that
\* the exact value lies strictly above bits * 2^e, by less than 2^e.
round_to_double(bits, e, sticky) ==
  IF Len(bits) <= MantBits
  THEN [m |-> bits \o [i \in 1..(MantBits - Len(bits)) |-> 0],
        e |-> e - (MantBits - Len(bits))]
  ELSE LET keep  == SubSeq(bits, 1, MantBits)
           guard == bits[MantBits + 1]
           rest  == sticky \/ \E i \in (MantBits + 2)..Len(bits) : bits[i] = 1
           e2    == e + (Len(bits) - MantBits)
           up    == guard = 1 /\ (rest \/ keep[MantBits] = 1)
           inc   == increment(keep)
       IN  IF ~up THEN [m |-> keep, e |-> e2]
           ELSE IF Len(inc) = MantBits THEN [m |-> inc, e |-> e2]
           ELSE [m |-> SubSeq(inc, 1, MantBits), e |-> e2 + 1]

RECURSIVE scale_num(_, _, _)
\* <<k * 2^s, s>> for the least s >= s0 with k * 2^s >= n   (0 < k < n)
scale_num(k, n, s) == IF k >= n THEN <<k, s>> ELSE scale_num(2 * k, n, s + 1)

RECURSIVE scale_den(_, _, _)
\* <<n * 2^t, t>> for the greatest t >= t0 with n * 2^t <= k  (0 < n <= k)
scale_den(k, n, t) == IF 2 * n > k THEN <<n, t>> ELSE scale_den(k, 2 * n, t + 1)

RECURSIVE quotient_bits(_, _, _)
\* the first count binary digits of num / den, where den <= num < 2 * den
quotient_bits(num, den, count) ==
  IF count = 0 THEN <<>>
  ELSE LET b == IF num >= den THEN 1 ELSE 0
       IN  <<b>> \o quotient_bits(2 * (num - b * den), den, count - 1)

RECURSIVE remainder_after(_, _, _)
\* what long division of num by den leaves after count digits
remainder_after(num, den, count) ==
  IF count = 0 THEN num
  ELSE LET b == IF num >= den THEN 1 ELSE 0
       IN  remainder_after(2 * (num - b * den), den, count - 1)

\* k / n for ints k >= 0, n > 0: the correctly rounded quotient
int_truediv(k, n) ==
  IF k = 0 THEN FloatZero
  ELSE LET up   == IF k < n THEN scale_num(k, n, 0) ELSE <<k, 0>>
           down == IF k < n THEN <<n, 0>> ELSE scale_den(k, n, 0)
           num  == up[1]
           den  == down[1]
           exp2 == down[2] - up[2]
       IN  round_to_double(quotient_bits(num, den, MantBits + 1),
                           exp2 - MantBits,
                           remainder_after(num, den, MantBits + 1) # 0)

RECURSIVE mul_bits(_, _, _, _)
\* bits[1..i] * c + carry, in binary, most significant bit first
mul_bits(bits, c, i, carry) ==
  IF i = 0 THEN to_bits(carry)
  ELSE LET d == bits[i] * c + carry
       IN  IF d % 2 = 0 THEN mul_bits(bits, c, i - 1, d \div 2) \o <<0>>
           ELSE mul_bits(bits, c, i - 1, d \div 2) \o <<1>>

\* f * c for a float f and an int c > 0: the correctly rounded product
float_mul_int(f, c) ==
  IF f.m = <<>> THEN FloatZero
  ELSE round_to_double(mul_bits(f.m, c, Len(f.m), 0), f.e, FALSE)

\* f compared with the int t, 0 <= t < 2^30: "lt", "eq" or "gt"
float_cmp(f, t) ==
  IF f.m = <<>> THEN (IF t > 0 THEN "lt" ELSE "eq")
  ELSE LET nint == MantBits + f.e
       IN  IF nint > 30 THEN "gt"
           ELSE LET whole == IF nint <= 0 THEN 0
                             ELSE bits_value(SubSeq(f.m, 1, nint))
                    first == IF nint <= 0 THEN 1 ELSE nint + 1
                    frac  == \E i \in first..MantBits : f.m[i] = 1
                IN  IF whole > t THEN "gt"
                    ELSE IF whole < t THEN "lt"
                    ELSE IF frac THEN "gt" ELSE "eq"

float_gt(f, t) == float_cmp(f, t) = "gt"
float_lt(f, t) == float_cmp(f, t) = "lt"
float_ge(f, t) == float_cmp(f, t) # "lt"
float_le(f, t) == float_cmp(f, t) # "gt"

(***************************************************************************)
(* SCORING LOGIC                                                           *)
(***************************************************************************)

Verdicts == {"Poor", "Fair", "Sufficient", "Good", "Excellent"}

\* what a call yields when it raises instead of returning
ZeroDivisionError == "ZeroDivisionError"

RECURSIVE completeness_loop_skips_last(_, _, _, _)
\* -- deviation: the loop runs over requirements[:-1], so the statement in
\* the last position is never examined
completeness_loop_skips_last(requirements, is_nfr, i, missing) ==
  IF i >= Len(requirements) THEN missing
  ELSE LET req == requirements[i]
           m1  == IF ~contains_action(req) THEN missing + 1 ELSE missing
           m2  == IF is_nfr /\ ~contains_measurable_value(req)
                  THEN m1 + 1 ELSE m1
       IN  completeness_loop_skips_last(requirements, is_nfr, i + 1, m2)

RECURSIVE completeness_loop_flag_inverted(_, _, _, _)
\* -- deviation: the measurable value is asked for when is_nfr is false
completeness_loop_flag_inverted(requirements, is_nfr, i, missing) ==
  IF i > Len(requirements) THEN missing
  ELSE LET req == requirements[i]
           m1  == IF ~contains_action(req) THEN missing + 1 ELSE missing
           m2  == IF ~is_nfr /\ ~contains_measurable_value(req)
                  THEN m1 + 1 ELSE m1
       IN  completeness_loop_flag_inverted(requirements, is_nfr, i + 1, m2)

RECURSIVE completeness_loop(_, _, _, _)
\* the for loop of evaluate_completeness over requirements[i..]
completeness_loop(requirements, is_nfr, i, missing) ==
  IF i > Len(requirements) THEN missing
  ELSE LET req == requirements[i]
           m1  == IF ~contains_action(req) THEN missing + 1 ELSE missing
           m2  == IF is_nfr /\ ~contains_measurable_value(req)
                  THEN m1 + 1 ELSE m1
       IN  completeness_loop(requirements, is_nfr, i + 1, m2)

\* completeness_verdict without its "missing == 0" branch and its else: the
\* function falls off its end and returns None
completeness_verdict_no_zero_case(missing) ==
  IF missing > 3 THEN "Poor"
  ELSE IF 2 <= missing /\ missing <= 3 THEN "Fair"
  ELSE IF missing = 1 THEN "Sufficient"
  ELSE "None"

\* completeness_verdict with "missing >= 3" in place of "missing > 3"
completeness_verdict_poor_from_3(missing) ==
  IF missing >= 3 THEN "Poor"
  ELSE IF 2 <= missing /\ missing <= 3 THEN "Fair"
  ELSE IF missing = 1 THEN "Sufficient"
  ELSE IF missing = 0 THEN "Good"
  ELSE "Excellent"

\* the if/elif chain of evaluate_completeness
completeness_verdict(missing) ==
  IF missing > 3 THEN "Poor"
  ELSE IF 2 <= missing /\ missing <= 3 THEN "Fair"
  ELSE IF missing = 1 THEN "Sufficient"
  ELSE IF missing = 0 THEN "Good"
  ELSE "Excellent"

\* -- deviation: evaluate_completeness with the empty-list guard that
\* evaluate_correctness has
evaluate_completeness_empty_is_poor(requirements, is_nfr) ==
  IF Len(requirements) = 0 THEN "Poor"
  ELSE completeness_verdict(completeness_loop(requirements, is_nfr, 1, 0))

evaluate_completeness(requirements, is_nfr) ==
  completeness_verdict(completeness_loop(requirements, is_nfr, 1, 0))

RECURSIVE count_ambiguous(_, _)
\* sum(1 for r in requirements[i..] if contains_ambiguity(r))
count_ambiguous(requirements, i) ==
  IF i > Len(requirements) THEN 0
  ELSE (IF contains_ambiguity(requirements[i]) THEN 1 ELSE 0)
       + count_ambiguous(requirements, i + 1)

\* correctness_verdict with "percentage >= 50" in place of "percentage > 50"
correctness_verdict_poor_from_50(percentage) ==
  IF float_ge(percentage, 50) THEN "Poor"
  ELSE IF float_ge(percentage, 30) /\ float_le(percentage, 50) THEN "Fair"
  ELSE IF float_ge(percentage, 10) /\ float_lt(percentage, 30)
       THEN "Sufficient"
  ELSE IF float_lt(percentage, 10) /\ float_gt(percentage, 0) THEN "Good"
  ELSE "Excellent"

\* the if/elif chain of evaluate_correctness on the float percentage
correctness_verdict(percentage) ==
  IF float_gt(percentage, 50) THEN "Poor"
  ELSE IF float_ge(percentage, 30) /\ float_le(percentage, 50) THEN "Fair"
  ELSE IF float_ge(percentage, 10) /\ float_lt(percentage, 30)
       THEN "Sufficient"
  ELSE IF float_lt(percentage, 10) /\ float_gt(percentage, 0) THEN "Good"
  ELSE "Excellent"

\* -- deviation: the ratio incorrect / len(requirements) is compared with the
\* thresholds, without the multiplication by 100
correctness_of_ratio(requirements) ==
  IF Len(requirements) = 0 THEN ZeroDivisionError
  ELSE correctness_verdict(
         int_truediv(count_ambiguous(requirements, 1), Len(requirements)))

\* (incorrect / len(requirements)) * 100 and its verdict; the division
\* raises ZeroDivisionError on an empty list
correctness_of_percentage(requirements) ==
  IF Len(requirements) = 0 THEN ZeroDivisionError
  ELSE correctness_verdict(
         float_mul_int(
           int_truediv(count_ambiguous(requirements, 1), Len(requirements)),
           100))

\* evaluate_correctness without its empty-list guard
evaluate_correctness_unguarded(requirements) ==
  correctness_of_percentage(requirements)

\* evaluate_correctness with the empty list scored as vacuously best
evaluate_correctness_empty_is_best(requirements) ==
  IF Len(requirements) = 0 THEN "Excellent"
  ELSE correctness_of_percentage(requirements)

evaluate_correctness(requirements) ==
  IF Len(requirements) = 0 THEN "Poor"
  ELSE correctness_of_percentage(requirements)

RECURSIVE clarity_loop_counts_twice(_, _, _)
\* clarity_loop with one "if" per condition, each adding 1
clarity_loop_counts_twice(requirements, i, unclear) ==
  IF i > Len(requirements) THEN unclear
  ELSE LET req == requirements[i]
           u1  == IF word_count(req) < 6 THEN unclear + 1 ELSE unclear
           u2  == IF contains_ambiguity(req) THEN u1 + 1 ELSE u1
       IN  clarity_loop_counts_twice(requirements, i + 1, u2)

RECURSIVE clarity_loop(_, _, _)
\* the for loop of evaluate_clarity over requirements[i..]
clarity_loop(requirements, i, unclear) ==
  IF i > Len(requirements) THEN unclear
  ELSE LET req == requirements[i]
       IN  clarity_loop(requirements, i + 1,
                        IF word_count(req) < 6 \/ contains_ambiguity(req)
                        THEN unclear + 1 ELSE unclear)

\* -- deviation: clarity_verdict without its "unclear == 0" branch, so that
\* the count 0 reaches the else
clarity_verdict_zero_reaches_else(unclear) ==
  IF unclear > 3 THEN "Poor"
  ELSE IF 2 <= unclear /\ unclear <= 3 THEN "Fair"
  ELSE IF unclear = 1 THEN "Sufficient"
  ELSE "Excellent"

clarity_verdict(unclear) ==
  IF unclear > 3 THEN "Poor"
  ELSE IF 2 <= unclear /\ unclear <= 3 THEN "Fair"
  ELSE IF unclear = 1 THEN "Sufficient"
  ELSE IF unclear = 0 THEN "Good"
  ELSE "Excellent"

\* -- deviation: clarity scored by the share of unclear statements, with
\* the thresholds of evaluate_correctness, in place of their number
evaluate_clarity_by_share(requirements) ==
  IF Len(requirements) = 0 THEN "Good"
  ELSE correctness_verdict(
         float_mul_int(
           int_truediv(clarity_loop(requirements, 1, 0), Len(requirements)),
           100))

evaluate_clarity(requirements) ==
  clarity_verdict(clarity_loop(requirements, 1, 0))

(***************************************************************************)
(* MATRIX GENERATOR                                                        *)
(***************************************************************************)

\* the DataFrame of no call yet (and of a call that raised)
NoTable == [c \in {} |-> <<>>]

\* what an exception leaves of a call: its name, and no table
Raise(exception) == [raised |-> exception, table |-> NoTable]

\* pd.DataFrame(data) for a dict of lists: one column per key, one row per
\* list position; lists of unequal length raise ValueError
DataFrame(data) ==
  IF \A c, d \in DOMAIN data : Len(data[c]) = Len(data[d])
  THEN [raised |-> "", table |-> data]
  ELSE Raise("ValueError")

\* -- deviation: is_nfr = True is passed to both Completeness calls
matrix_data_nfr_in_both_columns(buckets) ==
  ("Criteria" :> <<"Completeness", "Correctness", "Clarity">>)
  @@ ("Functional Requirements" :>
        << evaluate_completeness(buckets.functional, TRUE),
           evaluate_correctness(buckets.functional),
           evaluate_clarity(buckets.functional) >>)
  @@ ("Non-Functional Requirements" :>
        << evaluate_completeness(buckets.non_functional, TRUE),
           evaluate_correctness(buckets.non_functional),
           evaluate_clarity(buckets.non_functional) >>)

\* -- deviation: the Clarity of the Functional column is scored over the
\* statements of both buckets
matrix_data_clarity_over_both(buckets) ==
  ("Criteria" :> <<"Completeness", "Correctness", "Clarity">>)
  @@ ("Functional Requirements" :>
        << evaluate_completeness(buckets.functional, FALSE),
           evaluate_correctness(buckets.functional),
           evaluate_clarity(buckets.functional \o buckets.non_functional) >>)
  @@ ("Non-Functional Requirements" :>
        << evaluate_completeness(buckets.non_functional, TRUE),
           evaluate_correctness(buckets.non_functional),
           evaluate_clarity(buckets.non_functional) >>)

\* the dict built from the two buckets: every cell is one scorer call
matrix_data(buckets) ==
  ("Criteria" :> <<"Completeness", "Correctness", "Clarity">>)
  @@ ("Functional Requirements" :>
        << evaluate_completeness(buckets.functional, FALSE),
           evaluate_correctness(buckets.functional),
           evaluate_clarity(buckets.functional) >>)
  @@ ("Non-Functional Requirements" :>
        << evaluate_completeness(buckets.non_functional, TRUE),
           evaluate_correctness(buckets.non_functional),
           evaluate_clarity(buckets.non_functional) >>)

\* return pd.DataFrame(data), unless a scorer call raised while data was built
return_frame(data) ==
  IF \E c \in DOMAIN data :
       \E i \in 1..Len(data[c]) : data[c][i] = ZeroDivisionError
  THEN Raise(ZeroDivisionError)
  ELSE DataFrame(data)

generate_validation_matrix(text) ==
  return_frame(matrix_data(parse_requirements(text)))

(***************************************************************************)
(* Inputs.  A text is a concatenation of at most MaxPieces fragments: the  *)
(* two labels, white space, line breaks, a wrongly cased label, a label    *)
(* nested in a broken label, and two requirement bodies; or the three-line *)
(* example of two Functional lines and one Non-Functional line.            *)
(***************************************************************************)

MaxPieces == 4

Pieces ==
  { FunctionalLabel,
    NonFunctionalLabel,
    <<" ">>,
    <<"\n">>,
    <<"\r", "\n">>,
    \* "[functional]"
    <<"[","f","u","n","c","t","i","o","n","a","l","]">>,
    \* "[Func[Functional]tional]"
    <<"[","F","u","n","c","[","F","u","n","c","t","i","o","n","a","l","]",
      "t","i","o","n","a","l","]">>,
    \* "it must be up in 2 ms"
    <<"i","t"," ","m","u","s","t"," ","b","e"," ","u","p"," ","i","n"," ",
      "2"," ","m","s">>,
    \* "Fast"
    <<"F","a","s","t">> }

RECURSIVE JoinLines(_)
\* "\n".join(lines)
JoinLines(lines) ==
  IF lines = <<>> THEN <<>>
  ELSE IF Len(lines) = 1 THEN lines[1]
  ELSE lines[1] \o <<"\n">> \o JoinLines(Tail(lines))

RECURSIVE Texts(_)
\* every concatenation of at most n pieces
Texts(n) ==
  IF n = 0 THEN {<<>>}
  ELSE LET shorter == Texts(n - 1)
       IN  shorter \cup {t \o p : t \in shorter, p \in Pieces}

\* the three-line example: two Functional lines and one Non-Functional line
ExampleText ==
  \* "[Functional] The system shall allow login"
  <<"[","F","u","n","c","t","i","o","n","a","l","]"," ","T","h","e"," ","s",
    "y","s","t","e","m"," ","s","h","a","l","l"," ","a","l","l","o","w"," ",
    "l","o","g","i","n">>
  \o <<"\n">> \o
  \* "[Functional] The system must ensure fast performance"
  <<"[","F","u","n","c","t","i","o","n","a","l","]"," ","T","h","e"," ","s",
    "y","s","t","e","m"," ","m","u","s","t"," ","e","n","s","u","r","e"," ",
    "f","a","s","t"," ","p","e","r","f","o","r","m","a","n","c","e">>
  \o <<"\n">> \o
  \* "[Non-Functional] The system shall respond within 2 seconds"
  <<"[","N","o","n","-","F","u","n","c","t","i","o","n","a","l","]"," ","T",
    "h","e"," ","s","y","s","t","e","m"," ","s","h","a","l","l"," ","r","e",
    "s","p","o","n","d"," ","w","i","t","h","i","n"," ","2"," ","s","e","c",
    "o","n","d","s">>

Inputs == Texts(MaxPieces) \cup {ExampleText}

(***************************************************************************)
(* Buckets handed to the scorers directly.  Statements are drawn from      *)
(* Statements, at most MaxStmts of them; buckets of the one-word           *)
(* statements alone grow to MaxLong, so that small percentages occur.      *)
(***************************************************************************)

MaxStmts == 4

MaxLong == 11

\* "Fast", "MUST"
OneWord == { <<"F","a","s","t">>, <<"M","U","S","T">> }

Statements ==
  OneWord \cup
  { \* "it must be up in 2 ms"
    <<"i","t"," ","m","u","s","t"," ","b","e"," ","u","p"," ","i","n"," ",
      "2"," ","m","s">>,
    \* "It MUST be easy for us"
    <<"I","t"," ","M","U","S","T"," ","b","e"," ","e","a","s","y"," ",
      "f","o","r"," ","u","s">>,
    \* "we log 5 of the hits"
    <<"w","e"," ","l","o","g"," ","5"," ","o","f"," ","t","h","e"," ",
      "h","i","t","s">>,
    \* "log it"
    <<"l","o","g"," ","i","t">> }

(***************************************************************************)
(* State                                                                   *)
(***************************************************************************)

VARIABLES
  raw_text,        \* the text handed to the engine
  functional,      \* parse_requirements: the Functional bucket
  non_functional,  \* parse_requirements: the Non-Functional bucket
  matrix,          \* generate_validation_matrix: the DataFrame returned
  raised,          \* the exception a call ended with, "" if it returned
  pc,              \* "ready", then "parsed" or "reported"
  requirements,    \* the bucket handed to a scorer
  call,            \* the scorer called on it, "" before the call
  is_nfr,          \* evaluate_completeness: its flag
  verdict,         \* what the scorer returned
  runs             \* the frames of the calls that run side by side

vars == << raw_text, functional, non_functional, matrix, raised, pc,
           requirements, call, is_nfr, verdict, runs >>

engine_vars == << raw_text, functional, non_functional, matrix, raised, pc >>

scorer_vars == << requirements, call, is_nfr, verdict >>

(***************************************************************************)
(* The engine on a text: the parser called alone, or the matrix generator. *)
(***************************************************************************)

Init ==
  /\ raw_text \in Inputs
  /\ functional = <<>>
  /\ non_functional = <<>>
  /\ matrix = NoTable
  /\ raised = ""
  /\ pc = "ready"
  /\ requirements = <<>>
  /\ call = ""
  /\ is_nfr = FALSE
  /\ verdict = ""
  /\ runs = <<>>

ParseRequirements ==
  /\ pc = "ready"
  /\ \E buckets \in {parse_requirements(raw_text)} :
       /\ functional' = buckets.functional
       /\ non_functional' = buckets.non_functional
  /\ pc' = "parsed"
  /\ UNCHANGED << raw_text, matrix, raised >>
  /\ UNCHANGED scorer_vars
  /\ UNCHANGED runs

GenerateValidationMatrix ==
  /\ pc = "ready"
  /\ \E buckets \in {parse_requirements(raw_text)} :
       /\ functional' = buckets.functional
       /\ non_functional' = buckets.non_functional
  /\ \E result \in {generate_validation_matrix(raw_text)} :
       /\ matrix' = result.table
       /\ raised' = result.raised
  /\ pc' = "reported"
  /\ UNCHANGED raw_text
  /\ UNCHANGED scorer_vars
  /\ UNCHANGED runs

Next == ParseRequirements \/ GenerateValidationMatrix

Spec == Init /\ [][Next]_vars

(***************************************************************************)
(* The scorers on a bucket.                                                *)
(***************************************************************************)

InitScore ==
  /\ raw_text = <<>>
  /\ functional = <<>>
  /\ non_functional = <<>>
  /\ matrix = NoTable
  /\ raised = ""
  /\ pc = "ready"
  /\ requirements = <<>>
  /\ call = ""
  /\ is_nfr = FALSE
  /\ verdict = ""
  /\ runs = <<>>

\* the caller appends one more statement to the bucket
AddRequirement(req) ==
  /\ call = ""
  /\ \/ Len(requirements) < MaxStmts
     \/ /\ Len(requirements) < MaxLong
        /\ req \in OneWord
        /\ \A i \in 1..Len(requirements) : requirements[i] \in OneWord
  /\ requirements' = Append(requirements, req)
  /\ UNCHANGED << call, is_nfr, verdict >>
  /\ UNCHANGED engine_vars
  /\ UNCHANGED runs

EvaluateCompleteness(flag) ==
  /\ call = ""
  /\ call' = "evaluate_completeness"
  /\ is_nfr' = flag
  /\ verdict' = evaluate_completeness(requirements, flag)
  /\ UNCHANGED requirements
  /\ UNCHANGED engine_vars
  /\ UNCHANGED runs

EvaluateCorrectness ==
  /\ call = ""
  /\ call' = "evaluate_correctness"
  /\ verdict' = evaluate_correctness(requirements)
  /\ UNCHANGED << requirements, is_nfr >>
  /\ UNCHANGED engine_vars
  /\ UNCHANGED runs

EvaluateClarity ==
  /\ call = ""
  /\ call' = "evaluate_clarity"
  /\ verdict' = evaluate_clarity(requirements)
  /\ UNCHANGED << requirements, is_nfr >>
  /\ UNCHANGED engine_vars
  /\ UNCHANGED runs

NextScore ==
  \/ \E req \in Statements : AddRequirement(req)
  \/ \E flag \in BOOLEAN : EvaluateCompleteness(flag)
  \/ EvaluateCorrectness
  \/ EvaluateClarity

SpecScore == InitScore /\ [][NextScore]_vars

(***************************************************************************)
(* Reordering.  A scorer is called on a bucket of at most MaxOrder         *)
(* statements, or the matrix generator on a text of at most MaxOrder       *)
(* lines; the properties compare the result with that of every             *)
(* rearrangement of the bucket, or of the lines.                           *)
(***************************************************************************)

MaxOrder == 3

ShortBuckets == UNION {[1..n -> Statements] : n \in 0..MaxOrder}

\* "Fast", "it must be up in 2 ms"
OrderBodies ==
  { <<"F","a","s","t">>,
    <<"i","t"," ","m","u","s","t"," ","b","e"," ","u","p"," ","i","n"," ",
      "2"," ","m","s">> }

\* each body under each label, and a line without a label, "log it"
OrderLines ==
  {FunctionalLabel \o <<" ">> \o body : body \in OrderBodies}
  \cup {NonFunctionalLabel \o <<" ">> \o body : body \in OrderBodies}
  \cup {<<"l","o","g"," ","i","t">>}

OrderTexts ==
  {JoinLines(lines) : lines \in UNION {[1..n -> OrderLines] : n \in 0..MaxOrder}}

InitOrder ==
  /\ \/ requirements \in ShortBuckets /\ raw_text = <<>>
     \/ requirements = <<>> /\ raw_text \in OrderTexts
  /\ functional = <<>>
  /\ non_functional = <<>>
  /\ matrix = NoTable
  /\ raised = ""
  /\ pc = "ready"
  /\ call = ""
  /\ is_nfr = FALSE
  /\ verdict = ""
  /\ runs = <<>>

NextOrder ==
  \/ /\ raw_text = <<>>
     /\ pc = "ready"
     /\ \/ \E flag \in BOOLEAN : EvaluateCompleteness(flag)
        \/ EvaluateCorrectness
        \/ EvaluateClarity
  \/ /\ requirements = <<>>
     /\ call = ""
     /\ GenerateValidationMatrix

SpecOrder == InitOrder /\ [][NextOrder]_vars

(***************************************************************************)
(* Calls side by side.  Up to MaxRuns calls of generate_validation_matrix  *)
(* are in flight, each with its own frame: its argument raw_text, the two  *)
(* lists parse_requirements builds, the dict data, and what it returns.    *)
(* The steps of different calls interleave in any order, and a call that   *)
(* has returned can be followed by another one.  The module's only globals *)
(* are the two vocabularies, which no statement assigns or mutates.        *)
(***************************************************************************)

MaxRuns == 2

Runs == 1..MaxRuns

\* the texts the calls are made with: the empty text, the example, and
\* single lines with and without label
RunTexts == {<<>>, ExampleText} \cup OrderLines

\* the frame of no call
NoFrame ==
  [raw_text |-> <<>>, pc |-> "idle", functional |-> <<>>,
   non_functional |-> <<>>, data |-> NoTable, matrix |-> NoTable,
   raised |-> ""]

\* -- deviation: functional and non_functional are module-level lists, so a
\* call finds in them what call 1 appended before
frame_lists_shared_with_call_1(frames, r) ==
  IF r = 1
  THEN [functional |-> frames[1].functional,
        non_functional |-> frames[1].non_functional]
  ELSE [functional |-> frames[1].functional \o frames[r].functional,
        non_functional |-> frames[1].non_functional
                             \o frames[r].non_functional]

\* the two lists of call r, local to its frame, as the scorers receive them
frame_lists(frames, r) ==
  [functional |-> frames[r].functional,
   non_functional |-> frames[r].non_functional]

InitRuns ==
  /\ runs = [r \in Runs |-> NoFrame]
  /\ raw_text = <<>>
  /\ functional = <<>>
  /\ non_functional = <<>>
  /\ matrix = NoTable
  /\ raised = ""
  /\ pc = "ready"
  /\ requirements = <<>>
  /\ call = ""
  /\ is_nfr = FALSE
  /\ verdict = ""

\* generate_validation_matrix(text) is called: a new frame
RunCall(r, text) ==
  /\ runs[r].pc \in {"idle", "reported"}
  /\ runs' = [runs EXCEPT ![r] = [NoFrame EXCEPT !.raw_text = text,
                                                 !.pc = "ready"]]
  /\ UNCHANGED engine_vars
  /\ UNCHANGED scorer_vars

\* the call's parse_requirements returns
RunParse(r) ==
  /\ runs[r].pc = "ready"
  /\ \E text \in {runs[r].raw_text} :
       \E buckets \in {parse_requirements(text)} :
         runs' = [runs EXCEPT ![r].functional = buckets.functional,
                              ![r].non_functional = buckets.non_functional,
                              ![r].pc = "parsed"]
  /\ UNCHANGED engine_vars
  /\ UNCHANGED scorer_vars

\* the call's six scorer calls fill data
RunScore(r) ==
  /\ runs[r].pc = "parsed"
  /\ \E lists \in {frame_lists(runs, r)} :
       runs' = [runs EXCEPT ![r].data = matrix_data(lists),
                            ![r].pc = "scored"]
  /\ UNCHANGED engine_vars
  /\ UNCHANGED scorer_vars

\* the call returns pd.DataFrame(data)
RunReturn(r) ==
  /\ runs[r].pc = "scored"
  /\ \E result \in {return_frame(runs[r].data)} :
       runs' = [runs EXCEPT ![r].matrix = result.table,
                            ![r].raised = result.raised,
                            ![r].pc = "reported"]
  /\ UNCHANGED engine_vars
  /\ UNCHANGED scorer_vars

NextRuns ==
  \E r \in Runs :
    \/ \E text \in RunTexts : RunCall(r, text)
    \/ RunParse(r)
    \/ RunScore(r)
    \/ RunReturn(r)

SpecRuns == InitRuns /\ [][NextRuns]_vars

(***************************************************************************)
(* The lexical predicates on a statement.  A statement is a concatenation  *)
(* of at most MaxWords phrases; it is held as the one element of           *)
(* requirements, and verdict holds the boolean the predicate returns.      *)
(***************************************************************************)

MaxWords == 3

\* "The system "
TheSystem ==
  <<"T","h","e"," ","s","y","s","t","e","m"," ">>

\* "shall "
Shall ==
  <<"s","h","a","l","l"," ">>

\* "be robust"
BeRobust ==
  <<"b","e"," ","r","o","b","u","s","t">>

\* "respond within 2 seconds"
Respond ==
  <<"r","e","s","p","o","n","d"," ","w","i","t","h","i","n"," ","2"," ","s",
    "e","c","o","n","d","s">>

\* "is ready"
IsReady ==
  <<"i","s"," ","r","e","a","d","y">>

\* "breakfast"
Breakfast ==
  <<"b","r","e","a","k","f","a","s","t">>

\* "feast"
Feast ==
  <<"f","e","a","s","t">>

\* "systems"
Systems ==
  <<"s","y","s","t","e","m","s">>

\* "MUST "
Must ==
  <<"M","U","S","T"," ">>

\* "%"
Percent ==
  <<"%">>

WordPieces ==
  {TheSystem, Shall, BeRobust, Respond, IsReady, Breakfast, Feast, Systems,
   Must, Percent}

RECURSIVE Phrases(_, _)
\* every concatenation of at most n of the pieces
Phrases(pieces, n) ==
  IF n = 0 THEN {<<>>}
  ELSE LET shorter == Phrases(pieces, n - 1)
       IN  shorter \cup {t \o p : t \in shorter, p \in pieces}

InitWords ==
  /\ requirements \in {<<req>> : req \in Phrases(WordPieces, MaxWords)}
  /\ raw_text = <<>>
  /\ functional = <<>>
  /\ non_functional = <<>>
  /\ matrix = NoTable
  /\ raised = ""
  /\ pc = "ready"
  /\ call = ""
  /\ is_nfr = FALSE
  /\ verdict = ""
  /\ runs = <<>>

ContainsAction ==
  /\ call = ""
  /\ call' = "contains_action"
  /\ verdict' = contains_action(requirements[1])
  /\ UNCHANGED << requirements, is_nfr >>
  /\ UNCHANGED engine_vars
  /\ UNCHANGED runs

ContainsAmbiguity ==
  /\ call = ""
  /\ call' = "contains_ambiguity"
  /\ verdict' = contains_ambiguity(requirements[1])
  /\ UNCHANGED << requirements, is_nfr >>
  /\ UNCHANGED engine_vars
  /\ UNCHANGED runs

ContainsMeasurableValue ==
  /\ call = ""
  /\ call' = "contains_measurable_value"
  /\ verdict' = contains_measurable_value(requirements[1])
  /\ UNCHANGED << requirements, is_nfr >>
  /\ UNCHANGED engine_vars
  /\ UNCHANGED runs

NextWords == ContainsAction \/ ContainsAmbiguity \/ ContainsMeasurableValue

SpecWords == InitWords /\ [][NextWords]_vars

(***************************************************************************)
(* A growing bucket.  A caller appends statements to a bucket one at a     *)
(* time, up to MaxGrow of them, and calls the same scorer (Completeness    *)
(* with a fixed is_nfr, or Clarity) on the bucket after each; verdict      *)
(* holds what the latest call returned.                                    *)
(***************************************************************************)

MaxGrow == 5

\* "Fast", "MUST", "it must be up in 2 ms", "we log 5 of the hits"
GrowStatements ==
  { <<"F","a","s","t">>,
    <<"M","U","S","T">>,
    <<"i","t"," ","m","u","s","t"," ","b","e"," ","u","p"," ","i","n"," ",
      "2"," ","m","s">>,
    <<"w","e"," ","l","o","g"," ","5"," ","o","f"," ","t","h","e"," ",
      "h","i","t","s">> }

InitGrow ==
  /\ requirements = <<>>
  /\ \/ /\ call = "evaluate_completeness"
        /\ is_nfr \in BOOLEAN
        /\ verdict = evaluate_completeness(<<>>, is_nfr)
     \/ /\ call = "evaluate_clarity"
        /\ is_nfr = FALSE
        /\ verdict = evaluate_clarity(<<>>)
  /\ raw_text = <<>>
  /\ functional = <<>>
  /\ non_functional = <<>>
  /\ matrix = NoTable
  /\ raised = ""
  /\ pc = "ready"
  /\ runs = <<>>

\* one more statement, then evaluate_completeness on the longer bucket
GrowCompleteness(req) ==
  /\ call = "evaluate_completeness"
  /\ Len(requirements) < MaxGrow
  /\ \E bucket \in {Append(requirements, req)} :
       /\ requirements' = bucket
       /\ verdict' = evaluate_completeness(bucket, is_nfr)
  /\ UNCHANGED << call, is_nfr >>
  /\ UNCHANGED engine_vars
  /\ UNCHANGED runs

\* one more statement, then evaluate_clarity on the longer bucket
GrowClarity(req) ==
  /\ call = "evaluate_clarity"
  /\ Len(requirements) < MaxGrow
  /\ \E bucket \in {Append(requirements, req)} :
       /\ requirements' = bucket
       /\ verdict' = evaluate_clarity(bucket)
  /\ UNCHANGED << call, is_nfr >>
  /\ UNCHANGED engine_vars
  /\ UNCHANGED runs

NextGrow ==
  \E req \in GrowStatements : GrowCompleteness(req) \/ GrowClarity(req)

SpecGrow == InitGrow /\ [][NextGrow]_vars

(***************************************************************************)
(* Properties of the engine on a text (checked under Spec).                *)
(***************************************************************************)

\* the lines of the input, as "\n" separates them
InputLines == split_lines(raw_text)

\* the lines that, trimmed, start with label
LabeledWith(label) ==
  {i \in 1..Len(InputLines) : startswith(strip(InputLines[i]), label)}

\* how many lines of `labeled` come at or before line i
RankIn(labeled, i) == Cardinality({k \in labeled : k <= i})

ColumnNames ==
  {"Criteria", "Functional Requirements", "Non-Functional Requirements"}

\* C1: for every input text generate_validation_matrix returns a table of
\* exactly 3 rows, Completeness, Correctness, Clarity in that order, and 2
\* verdict columns, Functional and Non-Functional, each of whose 6 cells is
\* one of Poor, Fair, Sufficient, Good, Excellent.
C1_MatrixShape ==
  pc = "reported" =>
    /\ DOMAIN matrix = ColumnNames
    /\ Cardinality(DOMAIN matrix \ {"Criteria"}) = 2
    /\ matrix["Criteria"] = <<"Completeness", "Correctness", "Clarity">>
    /\ \A c \in DOMAIN matrix \ {"Criteria"} :
         /\ Len(matrix[c]) = 3
         /\ \A i \in 1..3 : matrix[c][i] \in Verdicts

\* a report on a text with a statement in each bucket
C1_Witness ==
  /\ pc = "reported"
  /\ functional # <<>>
  /\ non_functional # <<>>
  /\ matrix # NoTable

\* C2: generate_validation_matrix has no error outcome: for every input
\* (empty text, only blank or unlabeled lines, label-only lines, any mix) the
\* parser and the scorers return normally and a complete matrix is produced.
C2_NoErrorOutcome ==
  /\ raised = ""
  /\ pc = "reported" =>
       \A c \in ColumnNames :
         /\ c \in DOMAIN matrix
         /\ Len(matrix[c]) = 3
         /\ \A i \in 1..3 : matrix[c][i] # ZeroDivisionError

\* a report on the fully empty text
C2_Witness ==
  /\ pc = "reported"
  /\ raw_text = <<>>
  /\ raised = ""

\* C3: parse_requirements partitions the lines: the Functional bucket holds
\* one statement for each line that, trimmed, starts with "[Functional]", the
\* Non-Functional bucket one for each trimmed line starting with
\* "[Non-Functional]", both in input order; no line feeds both buckets and
\* every other line feeds neither.
C3_ParsePartitionsLines ==
  pc = "parsed" =>
    LET fl == LabeledWith(FunctionalLabel)
        nl == LabeledWith(NonFunctionalLabel)
    IN  /\ fl \cap nl = {}
        /\ Len(functional) = Cardinality(fl)
        /\ Len(non_functional) = Cardinality(nl)
        /\ \A i \in fl :
             functional[RankIn(fl, i)]
               = strip(replace(strip(InputLines[i]), FunctionalLabel))
        /\ \A i \in nl :
             non_functional[RankIn(nl, i)]
               = strip(replace(strip(InputLines[i]), NonFunctionalLabel))

\* a Functional line with a statement, and a non-blank line of neither label
C3_Witness ==
  /\ pc = "parsed"
  /\ Len(functional) = 1
  /\ functional[1] # <<>>
  /\ \E i \in 1..Len(InputLines) :
       /\ strip(InputLines[i]) # <<>>
       /\ i \notin LabeledWith(FunctionalLabel)
       /\ i \notin LabeledWith(NonFunctionalLabel)

\* the trimmed line without its first Len(label) characters, trimmed again
WithoutPrefix(line, label) ==
  strip(SubSeq(strip(line), Len(label) + 1, Len(strip(line))))

\* C4: for every labeled line the stored statement is the trimmed line with
\* only its leading label removed and the remainder trimmed again; a later
\* occurrence of a label text inside the remainder is kept.
C4_OnlyLeadingLabelRemoved ==
  pc = "parsed" =>
    LET fl == LabeledWith(FunctionalLabel)
        nl == LabeledWith(NonFunctionalLabel)
    IN  /\ \A i \in fl :
             functional[RankIn(fl, i)]
               = WithoutPrefix(InputLines[i], FunctionalLabel)
        /\ \A i \in nl :
             non_functional[RankIn(nl, i)]
               = WithoutPrefix(InputLines[i], NonFunctionalLabel)

\* C5: every statement in either bucket is a non-empty string, for every
\* input text, lines that consist of a label alone included.
C5_StatementsNonEmpty ==
  pc = "parsed" =>
    /\ \A j \in 1..Len(functional) : functional[j] # <<>>
    /\ \A j \in 1..Len(non_functional) : non_functional[j] # <<>>

\* each statement of each bucket behind its label and a space, one per line
Relabelled(fs, ns) ==
  JoinLines([j \in 1..Len(fs) |-> FunctionalLabel \o <<" ">> \o fs[j]]
            \o [j \in 1..Len(ns) |-> NonFunctionalLabel \o <<" ">> \o ns[j]])

\* C6: parsing is idempotent: re-labelling each extracted statement with its
\* bucket's label, joining the lines with line breaks and parsing again
\* returns the same two buckets.
C6_ParseIdempotent ==
  pc = "parsed" =>
    parse_requirements(Relabelled(functional, non_functional))
      = [functional |-> functional, non_functional |-> non_functional]

(***************************************************************************)
(* Properties of the scorers on a bucket (checked under SpecScore), and of *)
(* the Correctness row of the matrix (checked under Spec).                 *)
(***************************************************************************)

\* the statements without an action verb
LackingAction ==
  {i \in 1..Len(requirements) : ~contains_action(requirements[i])}

\* the statements without a measurable value
LackingMeasurable ==
  {i \in 1..Len(requirements) : ~contains_measurable_value(requirements[i])}

\* what the completeness rule counts as missing
MissingCount ==
  Cardinality(LackingAction)
  + (IF is_nfr THEN Cardinality(LackingMeasurable) ELSE 0)

\* C7: evaluate_completeness(bucket, is_nfr) returns the verdict of
\* missing = (statements without an action verb) + (if is_nfr: statements
\* without a measurable value, counted independently): more than 3 is Poor,
\* 2 and 3 are Fair, 1 is Sufficient, 0 is Good; without is_nfr the
\* measurable-value predicate does not enter the count.
C7_CompletenessThresholds ==
  call = "evaluate_completeness" =>
    /\ MissingCount > 3 => verdict = "Poor"
    /\ MissingCount \in {2, 3} => verdict = "Fair"
    /\ MissingCount = 1 => verdict = "Sufficient"
    /\ MissingCount = 0 => verdict = "Good"

\* a Non-Functional bucket at the boundary: 3 missing, one statement lacking
\* both an action verb and a measurable value
C7_Witness ==
  /\ call = "evaluate_completeness"
  /\ is_nfr
  /\ MissingCount = 3
  /\ LackingAction \cap LackingMeasurable # {}
  /\ verdict = "Fair"

\* the statements that contain an ambiguous term
AmbiguousCount ==
  Cardinality({i \in 1..Len(requirements) :
                 contains_ambiguity(requirements[i])})

\* C8: for a non-empty bucket of n statements, k of them ambiguous,
\* evaluate_correctness returns Poor when 100k > 50n, Fair when
\* 30n <= 100k <= 50n, Sufficient when 10n <= 100k < 30n, Good when
\* 0 < 100k < 10n and Excellent when k = 0.
C8_CorrectnessThresholds ==
  (call = "evaluate_correctness" /\ requirements # <<>>) =>
    LET n == Len(requirements)
        k == AmbiguousCount
    IN  /\ 100 * k > 50 * n => verdict = "Poor"
        /\ (30 * n <= 100 * k /\ 100 * k <= 50 * n) => verdict = "Fair"
        /\ (10 * n <= 100 * k /\ 100 * k < 30 * n) => verdict = "Sufficient"
        /\ (0 < 100 * k /\ 100 * k < 10 * n) => verdict = "Good"
        /\ k = 0 => verdict = "Excellent"

\* 3 ambiguous statements of 10: the percentage 30, where 3 / 10 is not a
\* binary fraction
C8_Witness ==
  /\ call = "evaluate_correctness"
  /\ Len(requirements) = 10
  /\ AmbiguousCount = 3
  /\ verdict = "Fair"

\* C9: evaluate_correctness returns Poor for an empty bucket, without
\* dividing; so the Functional Correctness cell is Poor whenever the input
\* has no Functional line, and the Non-Functional Correctness cell is Poor
\* whenever it has no Non-Functional line.
C9_EmptyBucketCorrectnessPoor ==
  /\ evaluate_correctness(<<>>) = "Poor"
  /\ pc = "reported" =>
       /\ raised = ""
       /\ ColumnNames \subseteq DOMAIN matrix
       /\ LabeledWith(FunctionalLabel) = {} =>
            matrix["Functional Requirements"][2] = "Poor"
       /\ LabeledWith(NonFunctionalLabel) = {} =>
            matrix["Non-Functional Requirements"][2] = "Poor"

\* a text with a Non-Functional line and no Functional line
C9_Witness ==
  /\ pc = "reported"
  /\ LabeledWith(FunctionalLabel) = {}
  /\ LabeledWith(NonFunctionalLabel) # {}
  /\ matrix["Functional Requirements"][2] = "Poor"
  /\ matrix["Non-Functional Requirements"][2] = "Excellent"

\* the statements of fewer than 6 words
ShortOnes ==
  {i \in 1..Len(requirements) : word_count(requirements[i]) < 6}

\* the statements with an ambiguous term
AmbiguousOnes ==
  {i \in 1..Len(requirements) : contains_ambiguity(requirements[i])}

\* C10: evaluate_clarity returns the verdict of unclear = the number of
\* statements that have fewer than 6 words or contain an ambiguous term, a
\* statement meeting both counted once (so unclear <= the bucket's length):
\* more than 3 is Poor, 2 and 3 are Fair, 1 is Sufficient, 0 is Good.
C10_ClarityThresholds ==
  call = "evaluate_clarity" =>
    LET unclear == Cardinality(ShortOnes \cup AmbiguousOnes)
    IN  /\ unclear <= Len(requirements)
        /\ unclear > 3 => verdict = "Poor"
        /\ unclear \in {2, 3} => verdict = "Fair"
        /\ unclear = 1 => verdict = "Sufficient"
        /\ unclear = 0 => verdict = "Good"

\* three unclear statements, one of them both short and ambiguous, one
\* ambiguous only and one short only
C10_Witness ==
  /\ call = "evaluate_clarity"
  /\ Cardinality(ShortOnes \cup AmbiguousOnes) = 3
  /\ ShortOnes \cap AmbiguousOnes # {}
  /\ ShortOnes \ AmbiguousOnes # {}
  /\ AmbiguousOnes \ ShortOnes # {}
  /\ verdict = "Fair"

(***************************************************************************)
(* Properties of the matrix as a whole (checked under Spec).               *)
(***************************************************************************)

\* C11: for every input text each cell of the matrix equals the matching
\* scorer applied to the matching parsed bucket: row 1 evaluate_completeness,
\* row 2 evaluate_correctness, row 3 evaluate_clarity; the Functional column
\* scores the Functional bucket with is_nfr false, the Non-Functional column
\* the Non-Functional bucket, and is_nfr true goes to the Non-Functional
\* Completeness call only.
C11_CellsAreScorerResults ==
  pc = "reported" =>
    /\ matrix["Functional Requirements"]
         = << evaluate_completeness(functional, FALSE),
              evaluate_correctness(functional),
              evaluate_clarity(functional) >>
    /\ matrix["Non-Functional Requirements"]
         = << evaluate_completeness(non_functional, TRUE),
              evaluate_correctness(non_functional),
              evaluate_clarity(non_functional) >>

\* a report where the flag decides both Completeness cells: each bucket would
\* score differently under the other flag value
C11_Witness ==
  /\ pc = "reported"
  /\ functional # <<>>
  /\ non_functional # <<>>
  /\ matrix["Functional Requirements"][1]
       # evaluate_completeness(functional, TRUE)
  /\ matrix["Non-Functional Requirements"][1]
       # evaluate_completeness(non_functional, FALSE)

\* C12: for the three-line example the Functional bucket has 2 statements and
\* the Non-Functional bucket 1, the Functional Correctness cell is Fair (1 of
\* 2 statements ambiguous, 50 percent) and the Non-Functional Completeness
\* cell is Good (nothing missing).
C12_ExampleMatrix ==
  (raw_text = ExampleText /\ pc = "reported") =>
    /\ Len(functional) = 2
    /\ Len(non_functional) = 1
    /\ count_ambiguous(functional, 1) = 1
    /\ matrix["Functional Requirements"][2] = "Fair"
    /\ completeness_loop(non_functional, TRUE, 1, 0) = 0
    /\ matrix["Non-Functional Requirements"][1] = "Good"

\* the report on the example
C12_Witness ==
  /\ raw_text = ExampleText
  /\ pc = "reported"
  /\ raised = ""
  /\ Len(matrix["Criteria"]) = 3

\* the order of the verdicts, worst first
VerdictRank(v) ==
  CASE v = "Poor" -> 1
    [] v = "Fair" -> 2
    [] v = "Sufficient" -> 3
    [] v = "Good" -> 4
    [] v = "Excellent" -> 5
    [] OTHER -> 0

\* what a line labeled with `label` and holding a requirement can be
\* replaced by: the same text with the label dropped, or with the other
\* label in its place
Mislabelings(line, label, other) ==
  LET body == WithoutPrefix(line, label)
  IN  {new \in {body, other \o <<" ">> \o body} :
         body # <<>> /\ ~startswith(new, label)}

\* the input with line i replaced by new
WithLine(i, new) == JoinLines([InputLines EXCEPT ![i] = new])

\* the call on the changed text returns, and its Completeness cell in
\* `column` is not better than it is in the matrix of the text itself
NotBetter(result, column) ==
  /\ result.raised = ""
  /\ column \in DOMAIN result.table
  /\ VerdictRank(result.table[column][1]) <= VerdictRank(matrix[column][1])

\* C13: if a labeled line of the input is replaced by the same text without
\* its label, or under the other label, the call raises no error and the
\* Completeness verdict of the line's category is not better (in the order
\* Poor < Fair < Sufficient < Good) than for the input as it was labeled.
C13_MislabelingNeverImproves ==
  pc = "reported" =>
    /\ \A i \in LabeledWith(FunctionalLabel) :
         \A new \in Mislabelings(InputLines[i], FunctionalLabel,
                                 NonFunctionalLabel) :
           NotBetter(generate_validation_matrix(WithLine(i, new)),
                     "Functional Requirements")
    /\ \A i \in LabeledWith(NonFunctionalLabel) :
         \A new \in Mislabelings(InputLines[i], NonFunctionalLabel,
                                 FunctionalLabel) :
           NotBetter(generate_validation_matrix(WithLine(i, new)),
                     "Non-Functional Requirements")

\* the verdicts the Completeness and Clarity scorers can return
CountVerdicts == {"Poor", "Fair", "Sufficient", "Good"}

\* C19: evaluate_completeness and evaluate_clarity never return Excellent,
\* for any bucket and either is_nfr value, so the Completeness and Clarity
\* rows of every matrix hold only Poor, Fair, Sufficient or Good; the
\* Correctness row can hold Excellent.
C19_ExcellentOnlyForCorrectness ==
  pc = "reported" =>
    /\ \A bucket \in {functional, non_functional} :
         /\ \A flag \in BOOLEAN :
              evaluate_completeness(bucket, flag) \in CountVerdicts
         /\ evaluate_clarity(bucket) \in CountVerdicts
    /\ \A c \in ColumnNames \ {"Criteria"} :
         /\ matrix[c][1] \in CountVerdicts
         /\ matrix[c][3] \in CountVerdicts

\* a matrix with Excellent in its Correctness row, in a column whose
\* Completeness and Clarity counts are 0
C19_Witness ==
  /\ pc = "reported"
  /\ \E c \in ColumnNames \ {"Criteria"} :
       matrix[c] = <<"Good", "Excellent", "Good">>

\* the column of an empty bucket
EmptyColumn == <<"Good", "Poor", "Good">>

\* C20: an empty bucket gets the zero-count verdict Good for Completeness
\* (with either is_nfr value) and for Clarity, and Poor for Correctness; so
\* for the fully empty text, and for a text with no labeled line at all, the
\* matrix is Completeness Good/Good, Correctness Poor/Poor, Clarity
\* Good/Good.
C20_EmptyBucketVerdicts ==
  /\ \A flag \in BOOLEAN : evaluate_completeness(<<>>, flag) = "Good"
  /\ evaluate_clarity(<<>>) = "Good"
  /\ evaluate_correctness(<<>>) = "Poor"
  /\ pc = "reported" =>
       /\ functional = <<>> => matrix["Functional Requirements"] = EmptyColumn
       /\ non_functional = <<>> =>
            matrix["Non-Functional Requirements"] = EmptyColumn
       /\ (LabeledWith(FunctionalLabel) = {}
           /\ LabeledWith(NonFunctionalLabel) = {}) =>
            /\ raised = ""
            /\ matrix["Functional Requirements"] = EmptyColumn
            /\ matrix["Non-Functional Requirements"] = EmptyColumn

\* the report on a text that has a non-blank line and no labeled line
C20_Witness ==
  /\ pc = "reported"
  /\ strip(raw_text) # <<>>
  /\ LabeledWith(FunctionalLabel) = {}
  /\ LabeledWith(NonFunctionalLabel) = {}
  /\ matrix["Functional Requirements"] = EmptyColumn
  /\ matrix["Non-Functional Requirements"] = EmptyColumn

(***************************************************************************)
(* Properties of reordering (checked under SpecOrder).                     *)
(***************************************************************************)

\* the sequence rearranged by the permutation p of its positions
Permuted(seq, p) == [i \in 1..Len(seq) |-> seq[p[i]]]

\* what the scorer named by `name` returns for the bucket
Scored(name, flag, bucket) ==
  CASE name = "evaluate_completeness" -> evaluate_completeness(bucket, flag)
    [] name = "evaluate_correctness" -> evaluate_correctness(bucket)
    [] name = "evaluate_clarity" -> evaluate_clarity(bucket)

\* C14: scoring is order-independent: for every bucket and every permutation
\* of its statements evaluate_completeness (with either is_nfr value),
\* evaluate_correctness and evaluate_clarity return for the permuted bucket
\* the verdict they return for the bucket; and generate_validation_matrix
\* returns the same matrix for a text and for every reordering of its lines.
C14_OrderIndependent ==
  /\ call # "" =>
       \A p \in Permutations(1..Len(requirements)) :
         Scored(call, is_nfr, Permuted(requirements, p)) = verdict
  /\ pc = "reported" =>
       \A p \in Permutations(1..Len(InputLines)) :
         generate_validation_matrix(JoinLines(Permuted(InputLines, p)))
           = [raised |-> raised, table |-> matrix]

\* the Non-Functional completeness of three statements with different
\* defects: one lacks both, one lacks the action verb only, one lacks nothing
C14_Witness ==
  /\ call = "evaluate_completeness"
  /\ is_nfr
  /\ Len(requirements) = 3
  /\ Cardinality(LackingAction) = 2
  /\ Cardinality(LackingMeasurable) = 1
  /\ requirements[3] \notin {requirements[1], requirements[2]}
  /\ verdict = "Fair"

RECURSIVE labeled_from(_, _, _)
\* the lines among lines[i..] that, trimmed, start with label, trimmed and in
\* their order
labeled_from(lines, label, i) ==
  IF i > Len(lines) THEN <<>>
  ELSE IF startswith(strip(lines[i]), label)
       THEN <<strip(lines[i])>> \o labeled_from(lines, label, i + 1)
       ELSE labeled_from(lines, label, i + 1)

\* the lines of the text under the label
LabeledLines(text, label) == labeled_from(split_lines(text), label, 1)

\* the column of the matrix that the call returns for the text made of the
\* given lines alone
ColumnOf(lines, column) ==
  generate_validation_matrix(JoinLines(lines)).table[column]

\* C22: the two columns of the matrix are independent: the Functional column
\* of a text is the Functional column of its "[Functional]" lines alone, so
\* two texts whose "[Functional]" lines are the same, in the same order,
\* have identical Functional columns whatever their "[Non-Functional]" and
\* unlabeled lines are; and the same holds of the "[Non-Functional]" lines
\* and the Non-Functional column.
C22_ColumnsIndependent ==
  pc = "reported" =>
    /\ ColumnOf(LabeledLines(raw_text, FunctionalLabel),
                "Functional Requirements")
         = matrix["Functional Requirements"]
    /\ ColumnOf(LabeledLines(raw_text, NonFunctionalLabel),
                "Non-Functional Requirements")
         = matrix["Non-Functional Requirements"]

\* a report on a text with lines under both labels and a line without
\* label: the text of its Functional lines alone has another Non-Functional
\* column, and the text of its Non-Functional lines alone another Functional
\* column
C22_Witness ==
  /\ pc = "reported"
  /\ Len(InputLines) = 3
  /\ Len(LabeledLines(raw_text, FunctionalLabel)) = 1
  /\ Len(LabeledLines(raw_text, NonFunctionalLabel)) = 1
  /\ ColumnOf(LabeledLines(raw_text, FunctionalLabel),
              "Non-Functional Requirements")
       # matrix["Non-Functional Requirements"]
  /\ ColumnOf(LabeledLines(raw_text, NonFunctionalLabel),
              "Functional Requirements")
       # matrix["Functional Requirements"]

(***************************************************************************)
(* Properties of calls side by side (checked under SpecRuns).              *)
(***************************************************************************)

\* what generate_validation_matrix returns for each text when it is the only
\* call
Alone == [text \in RunTexts |-> generate_validation_matrix(text)]

\* every call that has returned, returned what the call alone returns
ReturnsAsAlone ==
  \A r \in Runs :
    runs[r].pc = "reported" =>
      /\ runs[r].matrix = Alone[runs[r].raw_text].table
      /\ runs[r].raised = Alone[runs[r].raw_text].raised

\* no step of any call changes the text of a call in flight
InputKept ==
  \A r \in Runs :
    runs[r].pc \notin {"idle", "reported"} =>
      runs'[r].raw_text = runs[r].raw_text

\* C15: a run shares no state with any other run: when several
\* generate_validation_matrix calls are interleaved in any order, or a text
\* is analysed again after other calls, each call returns exactly the matrix
\* it returns when run alone, and no step changes the input of a call.
C15_RunsIndependent == []ReturnsAsAlone /\ [][InputKept]_vars

\* two calls have returned, for different texts and with different
\* matrices, the second one called while the first was between its steps
C15_Witness ==
  /\ \A r \in Runs : runs[r].pc = "reported"
  /\ \E r, q \in Runs :
       /\ runs[r].raw_text = ExampleText
       /\ runs[q].raw_text # ExampleText
       /\ runs[r].matrix # runs[q].matrix

(***************************************************************************)
(* Properties of the lexical predicates (checked under SpecWords).         *)
(***************************************************************************)

\* the two characters are the same letter in either case, or the same
\* character
SameIgnoringCase(a, b) ==
  \/ a = b
  \/ a \in UpperCase /\ LowerMap[a] = b
  \/ b \in UpperCase /\ LowerMap[b] = a

\* term occurs in s as a run of adjacent characters, in any letter case and
\* whatever stands before and after it
Occurs(term, s) ==
  \E i \in 0..(Len(s) - Len(term)) :
    \A j \in 1..Len(term) : SameIgnoringCase(s[i + j], term[j])

\* some term of the list occurs in s
SomeOccurs(terms, s) == \E k \in 1..Len(terms) : Occurs(terms[k], s)

\* C16: contains_action(s) is true exactly when some term of the action-verb
\* list, and contains_ambiguity(s) exactly when some term of the
\* ambiguous-term list, occurs as a substring of the statement, letter case
\* and word boundaries ignored; "breakfast" is ambiguous (it holds "fast"),
\* "The system shall be robust" is ambiguous, and "The system shall respond
\* within 2 seconds" has an action.
C16_SubstringPredicates ==
  /\ call = "contains_action" =>
       /\ verdict = SomeOccurs(ACTION_VERBS, requirements[1])
       /\ requirements[1] = TheSystem \o Shall \o Respond => verdict = TRUE
  /\ call = "contains_ambiguity" =>
       /\ verdict = SomeOccurs(AMBIGUOUS_WORDS, requirements[1])
       /\ requirements[1] = Breakfast => verdict = TRUE
       /\ requirements[1] = TheSystem \o Shall \o BeRobust => verdict = TRUE

\* "breakfast" was found ambiguous
C16_Witness ==
  /\ call = "contains_ambiguity"
  /\ requirements[1] = Breakfast
  /\ verdict = TRUE

\* C17: contains_measurable_value(s) is true exactly when the statement
\* holds a decimal digit, a percent sign or, letter case and word boundaries
\* ignored, one of seconds, ms, users, transactions, requests; it is true for
\* "systems" (which holds "ms") and for "The system shall respond within 2
\* seconds", and false for a statement with none of these.
C17_MeasurableValue ==
  call = "contains_measurable_value" =>
    /\ verdict =
         \/ \E i \in 1..Len(requirements[1]) : requirements[1][i] \in Digits
         \/ \E i \in 1..Len(requirements[1]) : requirements[1][i] = "%"
         \/ SomeOccurs(MEASURABLE_UNITS, requirements[1])
    /\ requirements[1] = Systems => verdict = TRUE
    /\ requirements[1] = TheSystem \o Shall \o Respond => verdict = TRUE
    /\ requirements[1] = TheSystem \o IsReady => verdict = FALSE

\* "systems" was found to hold a measurable value
C17_Witness ==
  /\ call = "contains_measurable_value"
  /\ requirements[1] = Systems
  /\ verdict = TRUE

\* the statements made of the word "feast" and of phrases that hold no
\* ambiguous term
FeastStatements ==
  {req \in Phrases({Feast, TheSystem, IsReady}, MaxWords) : Occurs(Feast, req)}

\* C18 (as claimed): a statement whose only candidate word is "feast"
\* matches the ambiguous term "fast": contains_ambiguity returns true for it.
C18_FeastMatchesFast ==
  (call = "contains_ambiguity" /\ requirements[1] \in FeastStatements) =>
    verdict = TRUE

\* C18 (amended): "fast" is not a substring of "feast", so a statement whose
\* only candidate word is "feast" matches no ambiguous term:
\* contains_ambiguity returns false for it.
C18_FeastDoesNotMatch ==
  (call = "contains_ambiguity" /\ requirements[1] \in FeastStatements) =>
    verdict = FALSE

\* contains_ambiguity has returned for "The system feast"
C18_Witness ==
  /\ call = "contains_ambiguity"
  /\ requirements[1] = TheSystem \o Feast
  /\ verdict = FALSE

(***************************************************************************)
(* Properties of a growing bucket (checked under SpecGrow).                *)
(***************************************************************************)

\* the verdict `after` is equal to or worse than the verdict `before`, and
\* Poor stays Poor
NotImproved(before, after) ==
  /\ VerdictRank(before) \in 1..4
  /\ VerdictRank(after) \in 1..4
  /\ VerdictRank(after) <= VerdictRank(before)
  /\ before = "Poor" => after = "Poor"

\* appending the unambiguous "MUST" to the bucket of the ambiguous "Fast"
\* improves its Correctness verdict
CorrectnessCanImprove ==
  VerdictRank(evaluate_correctness(<< <<"F","a","s","t">>,
                                       <<"M","U","S","T">> >>))
    > VerdictRank(evaluate_correctness(<< <<"F","a","s","t">> >>))

\* C21: Completeness and Clarity verdicts never improve as a bucket grows:
\* when statements are appended one at a time, in any sequence, each
\* evaluate_completeness result (for a fixed is_nfr) and each
\* evaluate_clarity result is equal to or worse than the previous one in the
\* order Poor < Fair < Sufficient < Good, and Poor stays Poor; Correctness
\* can improve by an appended statement.
C21_VerdictsNeverImprove ==
  []CorrectnessCanImprove /\ [][NotImproved(verdict, verdict')]_vars

\* a Non-Functional bucket that went from Good through Sufficient and Fair
\* to Poor, and stayed at Poor when one more statement was appended
C21_Witness ==
  /\ call = "evaluate_completeness"
  /\ is_nfr
  /\ Len(requirements) = 4
  /\ verdict = "Poor"
  /\ evaluate_completeness(SubSeq(requirements, 1, 3), TRUE) = "Poor"
  /\ evaluate_completeness(SubSeq(requirements, 1, 2), TRUE) = "Fair"
  /\ evaluate_completeness(SubSeq(requirements, 1, 1), TRUE) = "Sufficient"

\* what the last statement of the bucket added to the count `missing`
AddedByLast(bucket, flag) ==
  completeness_loop(bucket, flag, 1, 0)
    - completeness_loop(SubSeq(bucket, 1, Len(bucket) - 1), flag, 1, 0)

\* the verdicts of one bucket with and without is_nfr: the first is equal
\* to or worse than the second, and equal if no statement lacks a
\* measurable value
FlagOnlyLowers(with_flag, without_flag) ==
  /\ VerdictRank(with_flag) \in 1..4
  /\ VerdictRank(without_flag) \in 1..4
  /\ VerdictRank(with_flag) <= VerdictRank(without_flag)
  /\ LackingMeasurable = {} => with_flag = without_flag

\* C23: for every bucket evaluate_completeness(bucket, is_nfr=True) is equal
\* to or worse than evaluate_completeness(bucket, is_nfr=False) in the order
\* Poor < Fair < Sufficient < Good, and the two are equal whenever every
\* statement of the bucket contains a measurable value; a statement adds at
\* most 1 to the missing count when is_nfr is false and at most 2 when it is
\* true.
C23_FlagOnlyLowers ==
  call = "evaluate_completeness" =>
    /\ IF is_nfr
       THEN FlagOnlyLowers(verdict, evaluate_completeness(requirements, FALSE))
       ELSE FlagOnlyLowers(evaluate_completeness(requirements, TRUE), verdict)
    /\ requirements # <<>> =>
         AddedByLast(requirements, is_nfr) \in 0..(IF is_nfr THEN 2 ELSE 1)

\* a Non-Functional bucket with a worse verdict than it has without the
\* flag, whose last statement added 2 to the count
C23_Witness ==
  /\ call = "evaluate_completeness"
  /\ is_nfr
  /\ Len(requirements) = 3
  /\ LackingMeasurable # {}
  /\ AddedByLast(requirements, TRUE) = 2
  /\ verdict = "Poor"
  /\ evaluate_completeness(requirements, FALSE) = "Fair"

=============================================================================
